---- MODULE Spec2Model ----
(***************************************************************************)
(* Model of the dataframe endpoints of meerkat                             *)
(* (meerkat/interactive/api/routers/dataframe.py): schema, rows,           *)
(* remove_row_by_index and edit, together with the process-wide            *)
(* modification queue they append to and the trigger that drains it.       *)
(*                                                                         *)
(* A dataframe object is a record                                          *)
(*   [id, inode, columns, data, primary_key_name]                          *)
(* where columns is the ordered list of column names, data maps each       *)
(* column name to its sequence of cell values (position p of the code is   *)
(* index p+1 here) and inode is the id of the graph node of the object.    *)
(* An optional value is a sequence of length 0 (None) or 1.                *)
(***************************************************************************)
EXTENDS Integers, Sequences, FiniteSets, TLC

\* ------------------------------------------------------------------ bounds
\* rows of a dataframe
MaxRows == 3
\* rows of a dataframe in the specification of call sequences
MaxQueueRows == 1
\* modifications ever added to the queue in one behaviour
MaxMods == 2
\* rows of a dataframe in the specification of read requests
MaxReadRows == 2
\* entries of a position list or key list of a request
MaxList == 2
\* elements of a ScalarColumn operand
MaxColLen == 2

\* cell values
Vals == {1, 2}
\* values a request may carry: the cell values and 0, which no cell holds
ReqVals == {0} \cup Vals
\* the column lists a dataframe of the model may have
ColumnLists == { <<"id", "score">>, <<"id", "_h">> }
\* column names a request on dataframe d may carry: its columns and "zz",
\* a column of no dataframe
ReqNames(d) == { d.columns[i] : i \in 1..Len(d.columns) } \cup {"zz"}

None == <<>>
Some(x) == <<x>>
IsNone(o) == Len(o) = 0
Get(o) == o[1]

VARIABLES
    df,         \* the dataframe object the endpoints are called on
    queue,      \* state.modification_queue
    nextInode,  \* the next unused node id
    pre,        \* the dataframe object as it was when the last call began
    pre_queue,  \* the modification queue as it was when the last call began
    result,     \* the outcome of the last call
    issued,     \* every DataFrameModification ever added, in order
    consumed,   \* every DataFrameModification a trigger has drained, in order
    observed    \* the last value the reactive computation computed

vars == <<df, queue, nextInode, pre, pre_queue, result, issued, consumed, observed>>

\* ------------------------------------------------------------- sequences
Range(s) == { s[i] : i \in 1..Len(s) }

RECURSIVE SeqSum(_)
SeqSum(s) == IF Len(s) = 0 THEN 0 ELSE (IF Head(s) THEN 1 ELSE 0) + SeqSum(Tail(s))

RECURSIVE SelectBool(_, _)
\* the elements of s at the positions where mask is TRUE, in order
SelectBool(s, mask) ==
    IF Len(s) = 0 THEN <<>>
    ELSE (IF Head(mask) THEN <<Head(s)>> ELSE <<>>) \o SelectBool(Tail(s), Tail(mask))

IsPrefix(s, t) == Len(s) <= Len(t) /\ SubSeq(t, 1, Len(s)) = s

NoDuplicates(s) == \A i, j \in 1..Len(s) : s[i] = s[j] => i = j

\* ------------------------------------------------------------- dataframe
\* a dataframe without columns has no rows
len(d) == IF Len(d.columns) = 0 THEN 0 ELSE Len(d.data[d.columns[1]])

\* df[mask] for a boolean mask: a new dataframe object holding the rows at
\* the TRUE positions; the object indexed is left as it is.
GetMask(d, mask, inode) ==
    [ id |-> "derived",
      inode |-> inode,
      columns |-> d.columns,
      data |-> [ c \in DOMAIN d.data |-> SelectBool(d.data[c], mask) ],
      primary_key_name |-> d.primary_key_name ]

\* df[column] == row_id, element by element
EqMask(col, row_id) == [ i \in 1..Len(col) |-> col[i] = row_id ]

SetMaskAll(col, mask, value) == [ i \in 1..Len(col) |-> value ]

\* column[mask] = value, in place
SetMask(col, mask, value) == [ i \in 1..Len(col) |-> IF mask[i] THEN value ELSE col[i] ]

DataFrameModification(id, scope) == [ id |-> id, scope |-> scope ]

\* state.modification_queue.add
QueueAdd(q, m) == Append(q, m)

\* -------------------------------------------------------------- initial
Frames ==
    { [ id |-> "df", inode |-> 1, columns |-> cols, data |-> dt, primary_key_name |-> pk ] :
        cols \in ColumnLists,
        dt \in UNION { [ {"id", "score"} -> [1..n -> Vals] ] : n \in 0..MaxRows }
              \cup UNION { [ {"id", "_h"} -> [1..n -> Vals] ] : n \in 0..MaxRows },
        pk \in {None, Some("id")} }

WellFormed(d) ==
    /\ DOMAIN d.data = Range(d.columns)
    /\ (~IsNone(d.primary_key_name) => NoDuplicates(d.data[Get(d.primary_key_name)]))

Init ==
    /\ df \in { d \in Frames : WellFormed(d) }
    /\ queue = <<>>
    /\ nextInode = 2
    /\ pre = df
    /\ pre_queue = <<>>
    /\ result = [ op |-> "init", status |-> "ok" ]
    /\ issued = <<>>
    /\ consumed = <<>>
    /\ observed = df.data

\* ----------------------------------------------------------------- edit
EditMask(d, id_column, row_id) == EqMask(d.data[id_column], row_id)

NoMatchNever(mask) == FALSE

\* mask.sum() == 0
NoMatch(mask) == SeqSum(mask) = 0

EditScope(column) == <<column>>

EditModId(d) == d.inode

EditEnqueueReplace(q, d, column) == <<DataFrameModification(EditModId(d), EditScope(column))>>

\* state.modification_queue.add(DataFrameModification(id=df.inode.id, scope=[column]))
EditEnqueue(q, d, column) == QueueAdd(q, DataFrameModification(EditModId(d), EditScope(column)))

edit(value, column, row_id, id_column) ==
    /\ Len(issued) < MaxMods
    /\ pre' = df
    /\ pre_queue' = queue
    /\ UNCHANGED <<nextInode, consumed, observed>>
    /\ LET mask == EditMask(df, id_column, row_id)
           m == DataFrameModification(EditModId(df), EditScope(column))
       IN  IF NoMatch(mask)
           THEN \* the raise of line 167
                /\ result' = [ op |-> "edit", status |-> "error", value |-> value,
                               column |-> column, row_id |-> row_id, id_column |-> id_column ]
                /\ UNCHANGED <<df, queue, issued>>
           ELSE /\ df' = [ df EXCEPT !.data[column] = SetMask(df.data[column], mask, value) ]
                /\ queue' = EditEnqueue(queue, df, column)
                /\ issued' = Append(issued, m)
                /\ result' = [ op |-> "edit", status |-> "ok", value |-> value,
                               column |-> column, row_id |-> row_id, id_column |-> id_column ]

Edit == \E value \in Vals, column \in Range(df.columns), row_id \in ReqVals, id_column \in Range(df.columns) :
            edit(value, column, row_id, id_column)

\* -------------------------------------------------- remove_row_by_index
RowMaskWrap(n, row_index) ==
    [ i \in 1..n |-> (i - 1) # (IF row_index < 0 THEN n + row_index ELSE row_index) ]

RowMaskOneBased(n, row_index) == [ i \in 1..n |-> i # row_index ]

\* np.arange(len(df)) != row_index
RowMask(n, row_index) == [ i \in 1..n |-> (i - 1) # row_index ]

RemoveModId(local_df) == local_df.inode

RemoveScopeFirst(local_df) == <<local_df.columns[1]>>

RemoveScope(local_df) == local_df.columns

\* state.modification_queue.add(DataFrameModification(id=df.inode.id, scope=df.columns))
RemoveEnqueue(q, local_df) ==
    QueueAdd(q, DataFrameModification(RemoveModId(local_df), RemoveScope(local_df)))

remove_row_by_index(row_index) ==
    LET \* line 147 binds the local name df to the dataframe the indexing returns
        local_df == GetMask(df, RowMask(len(df), row_index), nextInode)
        m == DataFrameModification(RemoveModId(local_df), RemoveScope(local_df))
    IN  /\ Len(issued) < MaxMods
        /\ pre' = df
        /\ pre_queue' = queue
    /\ pre_queue' = queue
        /\ nextInode' = nextInode + 1
        /\ queue' = RemoveEnqueue(queue, local_df)
        /\ issued' = Append(issued, m)
        /\ result' = [ op |-> "remove_row_by_index", status |-> "ok",
                       row_index |-> row_index, local_df |-> local_df ]
        /\ UNCHANGED <<df, consumed, observed>>

RemoveRowByIndex == \E row_index \in -1..MaxRows : remove_row_by_index(row_index)

\* -------------------------------------------------------------- trigger
\* the declared input scope of the reactive computation registered on df
ReactiveScope == {"score", "_h"}

DrainedKeep(q) == q

\* the queue after a drain
Drained(q) == <<>>

Affected(q, d) ==
    \E i \in 1..Len(q) : q[i].id = d.inode /\ Range(q[i].scope) \cap ReactiveScope # {}

trigger ==
    /\ pre' = df
    /\ pre_queue' = queue
    /\ consumed' = consumed \o queue
    /\ queue' = Drained(queue)
    /\ observed' = IF Affected(queue, df) THEN df.data ELSE observed
    /\ result' = [ op |-> "trigger", status |-> "ok", drained |-> queue,
                   reran |-> Affected(queue, df) ]
    /\ UNCHANGED <<df, nextInode, issued>>

\* ---------------------------------------------------- _get_column_infos
\* column.startswith("_")
StartsWithUnderscore(column) == column \in {"_h"}

RECURSIVE Filter(_, _)
\* [x for x in s if x \notin drop]
Filter(s, drop) ==
    IF Len(s) = 0 THEN <<>>
    ELSE (IF Head(s) \in drop THEN <<>> ELSE <<Head(s)>>) \o Filter(Tail(s), drop)

ColumnInfo(name) == [ name |-> name ]

MissingColumnsReversed(d, columns) == Range(d.columns) \ Range(columns)

\* set(columns) - set(df.columns)
MissingColumns(d, columns) == Range(columns) \ Range(d.columns)

\* the names of the ColumnInfo list returned for the optional list columns,
\* or the 404 of line 54
get_column_infos(d, columns) ==
    IF ~IsNone(columns) /\ MissingColumns(d, Get(columns)) # {}
    THEN [ status |-> "http404", infos |-> <<>> ]
    ELSE LET requested == IF IsNone(columns) THEN d.columns ELSE Get(columns)
             shown == Filter(requested, { c \in Range(requested) : StartsWithUnderscore(c) })
             names == IF ~IsNone(d.primary_key_name) /\ Get(d.primary_key_name) \notin Range(shown)
                      THEN shown \o <<Get(d.primary_key_name)>>
                      ELSE shown
         IN  [ status |-> "ok", infos |-> [ i \in 1..Len(names) |-> ColumnInfo(names[i]) ] ]

\* --------------------------------------------------------------- schema
schema(columns) ==
    LET cols == IF IsNone(columns) THEN Some(df.columns) ELSE columns
        got == get_column_infos(df, cols)
    IN  /\ pre' = df
        /\ pre_queue' = queue
        /\ result' =
            IF got.status # "ok"
            THEN [ op |-> "schema", status |-> got.status, columns |-> columns,
                   response |-> None ]
            ELSE [ op |-> "schema", status |-> "ok", columns |-> columns,
                   response |-> Some([ id |-> df.id, columns |-> got.infos,
                                       nrows |-> len(df),
                                       primary_key |-> df.primary_key_name ]) ]
        /\ UNCHANGED <<df, queue, nextInode, issued, consumed, observed>>

\* ----------------------------------------------------------------- rows
Min(a, b) == IF a < b THEN a ELSE b
Max(a, b) == IF a > b THEN a ELSE b

\* df[[names]]: the dataframe restricted to the listed columns
GetColumns(d, names) ==
    [ id |-> "derived",
      inode |-> 0,
      columns |-> names,
      data |-> [ c \in Range(names) |-> d.data[c] ],
      primary_key_name |->
          IF ~IsNone(d.primary_key_name) /\ Get(d.primary_key_name) \in Range(names)
          THEN d.primary_key_name ELSE None ]

\* the dataframe holding the rows of d at the listed 1-based indices, in order
TakeRows(d, idx) ==
    [ d EXCEPT !.data = [ c \in DOMAIN d.data |-> [ j \in 1..Len(idx) |-> d.data[c][idx[j]] ] ] ]

\* a position list is valid when every entry p has -n <= p < n
PositionsValid(n, posidxs) == \A j \in 1..Len(posidxs) : -n <= posidxs[j] /\ posidxs[j] < n

\* df[posidxs]: negative positions count from the end
GetPositions(d, posidxs) ==
    TakeRows(d, [ j \in 1..Len(posidxs) |->
                    IF posidxs[j] < 0 THEN len(d) + posidxs[j] + 1 ELSE posidxs[j] + 1 ])

\* the bound a slice uses for the index i on a sequence of n elements
SliceBound(n, i) == IF i < 0 THEN Max(n + i, 0) ELSE Min(i, n)

\* df[start:end]
GetSlice(d, start, end) ==
    LET lo == SliceBound(len(d), start)
        hi == SliceBound(len(d), end)
    IN  TakeRows(d, [ j \in 1..Max(hi - lo, 0) |-> lo + j ])

\* list(range(start, end))
PyRange(start, end) == [ j \in 1..Max(end - start, 0) |-> start + j - 1 ]

\* the 1-based index of the row of column col holding key
IndexOf(col, key) == CHOOSE i \in 1..Len(col) : col[i] = key

KeysPresent(col, keyidxs) == \A j \in 1..Len(keyidxs) : keyidxs[j] \in Range(col)

\* df.loc[keyidxs], every key present: the rows of the keys, in key order
Loc(d, keyidxs) ==
    TakeRows(d, [ j \in 1..Len(keyidxs) |->
                    IndexOf(d.data[Get(d.primary_key_name)], keyidxs[j]) ])

IsinMaskAll(col, keyidxs) == [ i \in 1..Len(col) |-> TRUE ]

\* df[key_column].isin(keyidxs)
IsinMask(col, keyidxs) == [ i \in 1..Len(col) |-> col[i] \in Range(keyidxs) ]

\* formatter.encode of a cell
Encode(v) == <<"encoded", v>>

ClampEndNever(end, n) == IF IsNone(end) THEN n ELSE Get(end)

\* lines 108-111: the end of the range, n when absent and at most n otherwise
ClampEnd(end, n) == IF IsNone(end) THEN n ELSE Min(Get(end), n)

\* the row selection of lines 104-126 on the column-restricted dataframe d:
\* the status, the selected dataframe and the posidxs the response carries
SelectRows(d, start, end, posidxs, key_column, keyidxs) ==
    IF ~IsNone(posidxs) THEN
        IF PositionsValid(len(d), Get(posidxs))
        THEN [ status |-> "ok", df |-> GetPositions(d, Get(posidxs)), posidxs |-> posidxs ]
        ELSE [ status |-> "IndexError", df |-> d, posidxs |-> posidxs ]
    ELSE IF ~IsNone(start) THEN
        LET e == ClampEnd(end, len(d))
        IN  [ status |-> "ok", df |-> GetSlice(d, Get(start), e),
              posidxs |-> Some(PyRange(Get(start), e)) ]
    ELSE IF ~IsNone(keyidxs) THEN
        IF IsNone(key_column) THEN
            IF IsNone(d.primary_key_name)
            THEN [ status |-> "ValueError", df |-> d, posidxs |-> posidxs ]
            ELSE IF KeysPresent(d.data[Get(d.primary_key_name)], Get(keyidxs))
            THEN [ status |-> "ok", df |-> Loc(d, Get(keyidxs)), posidxs |-> posidxs ]
            ELSE [ status |-> "KeyError", df |-> d, posidxs |-> posidxs ]
        ELSE IF Get(key_column) \notin Range(d.columns)
        THEN [ status |-> "KeyError", df |-> d, posidxs |-> posidxs ]
        ELSE [ status |-> "ok",
               df |-> GetMask(d, IsinMask(d.data[Get(key_column)], Get(keyidxs)), 0),
               posidxs |-> posidxs ]
    ELSE [ status |-> "ValueError", df |-> d, posidxs |-> posidxs ]

EncodeRowsReversed(d, infos) ==
    [ r \in 1..len(d) |->
        [ k \in 1..Len(infos) |-> Encode(d.data[infos[Len(infos) + 1 - k].name][r]) ] ]

\* lines 128-135: one list of encoded cells per row, one cell per column info
EncodeRows(d, infos) ==
    [ r \in 1..len(d) |-> [ k \in 1..Len(infos) |-> Encode(d.data[infos[k].name][r]) ] ]

rows(start, end, posidxs, key_column, keyidxs, columns) ==
    LET full_length == len(df)
        got == get_column_infos(df, columns)
        req == [ start |-> start, end |-> end, posidxs |-> posidxs,
                 key_column |-> key_column, keyidxs |-> keyidxs, columns |-> columns ]
    IN  /\ pre' = df
        /\ pre_queue' = queue
        /\ UNCHANGED <<df, queue, nextInode, issued, consumed, observed>>
        /\ IF got.status # "ok"
           THEN result' = [ op |-> "rows", status |-> got.status, req |-> req,
                            selected |-> FALSE, response |-> None ]
           ELSE LET names == [ i \in 1..Len(got.infos) |-> got.infos[i].name ]
                    sel == SelectRows(GetColumns(df, names), start, end, posidxs,
                                      key_column, keyidxs)
                IN  IF sel.status # "ok"
                    THEN result' = [ op |-> "rows", status |-> sel.status, req |-> req,
                                     selected |-> TRUE, response |-> None ]
                    ELSE result' =
                           [ op |-> "rows", status |-> "ok", req |-> req, selected |-> TRUE,
                             response |-> Some([ column_infos |-> got.infos,
                                                 rows |-> EncodeRows(sel.df, got.infos),
                                                 full_length |-> full_length,
                                                 posidxs |-> sel.posidxs,
                                                 primary_key |-> sel.df.primary_key_name ]) ]

\* ------------------------------------------------------------- requests
\* the sequences over S of length at most n
SeqsUpTo(S, n) == UNION { [1..k -> S] : k \in 0..n }

\* optional column lists of a request: absent, or a list without repeats of
\* at most two names
ReqColumns(d) ==
    {None} \cup { Some(l) : l \in { x \in SeqsUpTo(ReqNames(d), 2) : NoDuplicates(x) } }

\* positions a request may name: every position of d, one before and one after
ReqPositions(d) == -1..len(d)

\* ends a range request may name: those positions and one beyond the length
ReqEnds(d) == -1..(len(d) + 1)

Schema == \E columns \in ReqColumns(df) : schema(columns)

RowsByPosition ==
    \E posidxs \in SeqsUpTo(ReqPositions(df), MaxList), columns \in ReqColumns(df) :
        rows(None, None, Some(posidxs), None, None, columns)

RowsByRange ==
    \E start \in ReqPositions(df), end \in {None} \cup { Some(e) : e \in ReqEnds(df) },
       columns \in ReqColumns(df) :
        rows(Some(start), end, None, None, None, columns)

RowsByKey ==
    \E keyidxs \in SeqsUpTo(ReqVals, MaxList),
       key_column \in {None} \cup { Some(c) : c \in Range(df.columns) },
       columns \in ReqColumns(df) :
        rows(None, None, None, key_column, Some(keyidxs), columns)

RowsNoSelection == \E columns \in ReqColumns(df) : rows(None, None, None, None, None, columns)

Rows == RowsByPosition \/ RowsByRange \/ RowsByKey \/ RowsNoSelection

\* --------------------------------------------------------- ScalarColumn
BACKENDS == {"arrow", "pandas"}

\* the numbers the cells and scalars of an operand may be
Nums == -2..2

\* ScalarColumn(data, backend=backend)
ScalarColumn(data, backend) == [ backend |-> backend, data |-> data ]

Abs(x) == IF x < 0 THEN -x ELSE x

RECURSIVE Gcd(_, _)
Gcd(x, y) == IF y = 0 THEN x ELSE Gcd(y, x % y)

\* the quotient x / y rounded toward zero
TruncDiv(x, y) ==
    LET q == Abs(x) \div Abs(y)
    IN  IF (x < 0) = (y < 0) THEN q ELSE -q

FloorDivTowardZero(x, y) == TruncDiv(x, y)

\* x // y: the quotient rounded toward negative infinity
FloorDiv(x, y) ==
    LET q == TruncDiv(x, y)
    IN  IF q * y # x /\ ((x < 0) # (y < 0)) THEN q - 1 ELSE q

\* x % y, the remainder of the floor division
Mod(x, y) == x - y * FloorDiv(x, y)

\* x / y: a floating result, held as the fraction in lowest terms
TrueDiv(x, y) ==
    LET g == Gcd(Abs(x), Abs(y))
        sign == IF (x < 0) = (y < 0) THEN 1 ELSE -1
    IN  [ num |-> sign * (Abs(x) \div g), den |-> Abs(y) \div g ]

RECURSIVE Pow(_, _)
\* x ** y for y >= 0
Pow(x, y) == IF y = 0 THEN 1 ELSE x * Pow(x, y - 1)

ARITHMETIC == {"+", "-", "*", "/", "//", "%", "**"}
COMPARISON == {"<", ">"}

\* the operators the tests apply on a backend: % on pandas only
Operators(backend) == IF backend = "pandas" THEN ARITHMETIC ELSE ARITHMETIC \ {"%"}

\* x op y has a value: no division by zero, no negative integer power
Defined(op, x, y) ==
    /\ (op \in {"/", "//", "%"} => y # 0)
    /\ (op = "**" => y >= 0)

\* x op y on two numbers
Apply(op, x, y) ==
    CASE op = "+" -> x + y
      [] op = "-" -> x - y
      [] op = "*" -> x * y
      [] op = "/" -> TrueDiv(x, y)
      [] op = "//" -> FloorDiv(x, y)
      [] op = "%" -> Mod(x, y)
      [] op = "**" -> Pow(x, y)
      [] op = "<" -> x < y
      [] op = ">" -> x > y

\* the comparison Python evaluates on the column for scalar op column
Swapped(op) == IF op = "<" THEN ">" ELSE "<"

\* col_a op col_b
BinaryOp(op, col_a, col_b) ==
    ScalarColumn([ i \in 1..Len(col_a.data) |-> Apply(op, col_a.data[i], col_b.data[i]) ],
                 col_a.backend)

ScalarOpUnordered(op, col, scalar, right) ==
    ScalarColumn([ i \in 1..Len(col.data) |-> Apply(op, col.data[i], scalar) ], col.backend)

\* col op scalar, or with right the reflected form scalar op col
ScalarOp(op, col, scalar, right) ==
    ScalarColumn([ i \in 1..Len(col.data) |->
                     IF ~right THEN Apply(op, col.data[i], scalar)
                     ELSE IF op \in COMPARISON THEN Apply(Swapped(op), col.data[i], scalar)
                     ELSE Apply(op, scalar, col.data[i]) ],
                 col.backend)

column_op(backend, op, a, b) ==
    /\ result' = [ op |-> "column_op", status |-> "ok", operator |-> op,
                   col_a |-> ScalarColumn(a, backend), col_b |-> ScalarColumn(b, backend),
                   out |-> BinaryOp(op, ScalarColumn(a, backend), ScalarColumn(b, backend)) ]
    /\ pre' = df
    /\ pre_queue' = queue
    /\ UNCHANGED <<df, queue, nextInode, issued, consumed, observed>>

scalar_op(backend, op, a, scalar) ==
    /\ result' = [ op |-> "scalar_op", status |-> "ok", operator |-> op,
                   col_a |-> ScalarColumn(a, backend), scalar |-> scalar,
                   left |-> ScalarOp(op, ScalarColumn(a, backend), scalar, FALSE),
                   right |-> ScalarOp(op, ScalarColumn(a, backend), scalar, TRUE) ]
    /\ pre' = df
    /\ pre_queue' = queue
    /\ UNCHANGED <<df, queue, nextInode, issued, consumed, observed>>

ColumnOp ==
    \E backend \in BACKENDS, n \in 0..MaxColLen :
        \E op \in Operators(backend), a \in [1..n -> Nums], b \in [1..n -> Nums] :
            /\ \A i \in 1..n : Defined(op, a[i], b[i])
            /\ column_op(backend, op, a, b)

ScalarColumnOp ==
    \E backend \in BACKENDS, n \in 0..MaxColLen :
        \E op \in Operators(backend) \cup COMPARISON, a \in [1..n -> Nums], scalar \in Nums :
            /\ \A i \in 1..n : Defined(op, a[i], scalar) /\ Defined(op, scalar, a[i])
            /\ scalar_op(backend, op, a, scalar)

\* no endpoint has been called yet
Fresh == result.op = "init"

\* sequences of calls on a small dataframe
InitQueue == Init /\ len(df) <= MaxQueueRows

Next == Edit \/ RemoveRowByIndex \/ trigger

Spec == InitQueue /\ [][Next]_vars

\* one mutating call on any dataframe
NextCall == Fresh /\ (Edit \/ RemoveRowByIndex)

SpecCall == Init /\ [][NextCall]_vars

\* one read request on a dataframe
InitRead == Init /\ len(df) <= MaxReadRows

NextRead == Fresh /\ (Schema \/ Rows)

SpecRead == InitRead /\ [][NextRead]_vars

\* one operator application on ScalarColumn operands
InitColumn == Init /\ len(df) = 0 /\ IsNone(df.primary_key_name) /\ df.columns = <<"id", "score">>

NextColumn == Fresh /\ (ColumnOp \/ ScalarColumnOp)

SpecColumn == InitColumn /\ [][NextColumn]_vars

\* ======================================================================
\* Properties
\* ======================================================================
Mutating == {"edit", "remove_row_by_index"}

Succeeded == result.op \in Mutating /\ result.status = "ok"

Last(q) == q[Len(q)]

\* the rows of d whose cell in column k equals r
Matching(d, k, r) == { i \in 1..len(d) : d.data[k][i] = r }

\* C1: when at least one row has k equal to r, edit(value=v, column=c,
\* row_id=r, id_column=k) succeeds and leaves v in column c at the rows whose
\* k-value was r; every other cell keeps the value it had, and the row count
\* and the columns are unchanged.
C1_EditWritesMatchingRows ==
    (result.op = "edit" /\ Matching(pre, result.id_column, result.row_id) # {}) =>
        /\ result.status = "ok"
        /\ df.columns = pre.columns
        /\ DOMAIN df.data = DOMAIN pre.data
        /\ \A c \in DOMAIN pre.data :
            /\ Len(df.data[c]) = len(pre)
            /\ \A i \in 1..len(pre) :
                df.data[c][i] =
                    IF c = result.column /\ i \in Matching(pre, result.id_column, result.row_id)
                    THEN result.value
                    ELSE pre.data[c][i]

\* an edit that wrote a cell and left another cell of the same column, holding
\* another value, alone
C1_Witness ==
    /\ result.op = "edit" /\ result.status = "ok"
    /\ \E i, j \in 1..len(pre) :
        /\ i \in Matching(pre, result.id_column, result.row_id)
        /\ pre.data[result.column][i] # result.value
        /\ df.data[result.column][i] = result.value
        /\ j \notin Matching(pre, result.id_column, result.row_id)
        /\ df.data[result.column][j] # result.value

\* C2: an edit whose row_id no row of id_column equals ends in an error,
\* changes no cell and appends nothing to the modification queue.
C2_EditNoMatchRaises ==
    (result.op = "edit" /\ Matching(pre, result.id_column, result.row_id) = {}) =>
        /\ result.status = "error"
        /\ df = pre
        /\ queue = pre_queue

C2_Witness ==
    /\ result.op = "edit" /\ result.status = "error"
    /\ len(pre) > 0
    /\ Len(queue) > 0

\* C3: a successful edit or remove_row_by_index appends exactly one
\* DataFrameModification: the queue is the queue before the call plus one
\* record, whose scope is the edited column alone for edit and the list of
\* all columns of the dataframe for remove_row_by_index.
C3_OneModificationPerCall ==
    Succeeded =>
        /\ Len(queue) = Len(pre_queue) + 1
        /\ SubSeq(queue, 1, Len(pre_queue)) = pre_queue
        /\ Last(queue).scope =
              IF result.op = "edit" THEN <<result.column>> ELSE pre.columns

\* a removal after an edit: two records, scopes of one column and of all
C3_Witness ==
    /\ result.op = "remove_row_by_index"
    /\ Len(queue) = 2
    /\ Len(queue[1].scope) = 1
    /\ queue[2].scope = df.columns

\* C4: for 0 <= i < N the dataframe remove_row_by_index produces has the N-1
\* rows of the original other than row i, unchanged and in their order.
C4_RemoveProducesOtherRows ==
    ( /\ result.op = "remove_row_by_index"
      /\ 0 <= result.row_index /\ result.row_index < len(pre) ) =>
        /\ result.local_df.columns = pre.columns
        /\ \A c \in DOMAIN pre.data :
            /\ Len(result.local_df.data[c]) = len(pre) - 1
            /\ \A j \in 1..(len(pre) - 1) :
                result.local_df.data[c][j] =
                    pre.data[c][IF j <= result.row_index THEN j ELSE j + 1]

\* the middle row of three removed, the rows around it differing
C4_Witness ==
    /\ result.op = "remove_row_by_index"
    /\ result.row_index = 1
    /\ len(pre) = 3
    /\ pre.data["id"][1] # pre.data["id"][3]
    /\ len(result.local_df) = 2

\* C5 (as claimed): after remove_row_by_index with a valid position, the
\* dataframe the endpoint was called on has one row fewer.
C5_RemovedInPlace ==
    ( /\ result.op = "remove_row_by_index"
      /\ 0 <= result.row_index /\ result.row_index < len(pre) ) =>
        len(df) = len(pre) - 1

\* C6 (as claimed): the modification a successful edit or
\* remove_row_by_index appends carries the id the dataframe the endpoint was
\* called on had before the call.
C6_ModificationCarriesIdentity ==
    Succeeded => Last(queue).id = pre.inode

\* C7: edit and remove_row_by_index only extend the queue, and the queue
\* holds, in call order, the records of the successful calls made since the
\* last drain.
C7_QueueAppendOnly ==
    /\ (result.op \in Mutating => IsPrefix(pre_queue, queue))
    /\ queue = SubSeq(issued, Len(consumed) + 1, Len(issued))

\* two different records queued by two calls with no trigger in between
C7_Witness ==
    /\ result.op \in Mutating
    /\ Len(queue) = 2
    /\ queue[1] # queue[2]
    /\ consumed = <<>>

\* C8: a trigger drains the whole queue in order and leaves it empty; every
\* modification ever added is drained once or is still queued; a reactive
\* computation the trigger re-runs sees the dataframe with every queued
\* modification applied.
C8_TriggerDrainsOnce ==
    /\ consumed \o queue = issued
    /\ (result.op = "trigger" =>
            /\ queue = <<>>
            /\ result.drained = pre_queue
            /\ (result.reran => observed = df.data))

\* a trigger that drained two edits and re-ran the computation
C8_Witness ==
    /\ result.op = "trigger"
    /\ Len(result.drained) = 2
    /\ result.drained[1] # result.drained[2]
    /\ result.reran
    /\ Len(consumed) = 2

\* the optional column list of the last schema or rows request
RequestedColumns == IF result.op = "schema" THEN result.columns ELSE result.req.columns

\* the key column a rows request by key list looks the keys up in
KeyColumn ==
    IF IsNone(result.req.key_column) THEN pre.primary_key_name ELSE result.req.key_column

\* the last request was a rows request whose selection is by key list
ByKeyList ==
    /\ result.op = "rows"
    /\ result.selected
    /\ IsNone(result.req.posidxs)
    /\ IsNone(result.req.start)
    /\ ~IsNone(result.req.keyidxs)

NotFound == {"KeyError", "http404"}

\* C9 (as claimed): a rows request by key list fails with a not-found
\* condition whenever a requested key is absent from the key column, be the
\* key column the primary key or a named key_column.
C9_MissingKeyFails ==
    ( /\ ByKeyList
      /\ ~IsNone(KeyColumn)
      /\ ~KeysPresent(pre.data[Get(KeyColumn)], Get(result.req.keyidxs)) ) =>
        result.status \in NotFound

\* C10: a schema or rows request whose explicit column list names a column
\* the dataframe does not have fails with the 404 before any response or
\* row selection is made; a request whose names all exist, or that gives no
\* list, does not fail with the 404.
C10_MissingColumn404 ==
    result.op \in {"schema", "rows"} =>
        IF ~IsNone(RequestedColumns) /\ Range(Get(RequestedColumns)) \ Range(pre.columns) # {}
        THEN /\ result.status = "http404"
             /\ IsNone(result.response)
             /\ (result.op = "rows" => ~result.selected)
        ELSE result.status # "http404"

\* a rows request naming an existing column and a missing one
C10_Witness ==
    /\ result.op = "rows"
    /\ result.status = "http404"
    /\ ~IsNone(RequestedColumns)
    /\ Range(Get(RequestedColumns)) \cap Range(pre.columns) # {}
    /\ len(pre) > 0

\* the response of the last rows request, which succeeded
RowsResponse == Get(result.response)

\* C11: a successful rows request, in every selection mode, reports as
\* full_length the row count the dataframe had before any selection, and each
\* returned row is a row of the dataframe given as one cell per entry of
\* column_infos, in the order of column_infos.
C11_RowsShape ==
    (result.op = "rows" /\ result.status = "ok") =>
        /\ RowsResponse.full_length = len(pre)
        /\ \A r \in 1..Len(RowsResponse.rows) :
            /\ Len(RowsResponse.rows[r]) = Len(RowsResponse.column_infos)
            /\ \E p \in 1..len(pre) :
                \A k \in 1..Len(RowsResponse.column_infos) :
                    RowsResponse.rows[r][k] =
                        Encode(pre.data[RowsResponse.column_infos[k].name][p])

\* a key-list request that returned fewer rows than the dataframe has, each
\* of two cells that differ
C11_Witness ==
    /\ result.op = "rows" /\ result.status = "ok"
    /\ ~IsNone(result.req.keyidxs) /\ IsNone(result.req.posidxs) /\ IsNone(result.req.start)
    /\ Len(RowsResponse.column_infos) = 2
    /\ Len(RowsResponse.rows) = 1
    /\ RowsResponse.rows[1][1] # RowsResponse.rows[1][2]
    /\ RowsResponse.full_length = 2

\* the last request was a rows request by position range that succeeded
ByRange ==
    /\ result.op = "rows" /\ result.status = "ok"
    /\ IsNone(result.req.posidxs)
    /\ ~IsNone(result.req.start)

\* the cells of the row of d at position p (0-based), one per column info
RowAt(d, infos, p) == [ k \in 1..Len(infos) |-> Encode(d.data[infos[k].name][p + 1]) ]

\* C14 (as claimed): in position-range mode, for every start and end, the
\* posidxs of the response has one entry per returned row, entry j is the
\* position in the dataframe of the j-th returned row, and no returned
\* position is at or beyond the length of the dataframe.
C14_RangePosidxs ==
    ByRange =>
        LET P == Get(RowsResponse.posidxs) IN
        /\ Len(P) = Len(RowsResponse.rows)
        /\ \A j \in 1..Len(P) :
            /\ 0 <= P[j] /\ P[j] < len(pre)
            /\ RowsResponse.rows[j] = RowAt(pre, RowsResponse.column_infos, P[j])

\* C14 (amended): in position-range mode with start >= 0 and end absent or
\* >= 0, the posidxs of the response has one entry per returned row, entry j
\* is the position in the dataframe of the j-th returned row, and no returned
\* position is at or beyond the length of the dataframe.
C14_RangePosidxsNonNegative ==
    ( /\ ByRange
      /\ Get(result.req.start) >= 0
      /\ (IsNone(result.req.end) \/ Get(result.req.end) >= 0) ) =>
        LET P == Get(RowsResponse.posidxs) IN
        /\ Len(P) = Len(RowsResponse.rows)
        /\ \A j \in 1..Len(P) :
            /\ 0 <= P[j] /\ P[j] < len(pre)
            /\ RowsResponse.rows[j] = RowAt(pre, RowsResponse.column_infos, P[j])

\* a range from position 1 whose end lies beyond the two rows of the
\* dataframe: the one row at position 1 is returned
C14_Witness ==
    /\ ByRange
    /\ Get(result.req.start) = 1
    /\ ~IsNone(result.req.end) /\ Get(result.req.end) > len(pre)
    /\ len(pre) = 2
    /\ Len(RowsResponse.rows) = 1
    /\ Get(RowsResponse.posidxs) = <<1>>

\* C15: remove_row_by_index with a row_index that is no position of the
\* dataframe (negative, or at or beyond the row count) ends without error and
\* removes no row, neither from the dataframe it was called on nor from the
\* dataframe it produces, and still appends one DataFrameModification whose
\* scope is the list of all columns.
C15_RemoveInvalidIndex ==
    ( /\ result.op = "remove_row_by_index"
      /\ (result.row_index < 0 \/ result.row_index >= len(pre)) ) =>
        /\ result.status = "ok"
        /\ df = pre
        /\ result.local_df.data = pre.data
        /\ Len(queue) = Len(pre_queue) + 1
        /\ IsPrefix(pre_queue, queue)
        /\ Last(queue).scope = pre.columns

\* a negative row_index on a dataframe that has a row
C15_Witness ==
    /\ result.op = "remove_row_by_index"
    /\ result.row_index = -1
    /\ len(pre) = 1
    /\ len(result.local_df) = 1
    /\ Len(queue) = 2

\* z is the value of x op y, stated without the operators of the model
Holds(op, x, y, z) ==
    CASE op = "+" -> z - y = x
      [] op = "-" -> z + y = x
      [] op = "*" -> z = x * y
      [] op = "/" -> z.den > 0 /\ z.num * y = x * z.den
      [] op = "//" -> IF y > 0 THEN y * z <= x /\ x < y * z + y
                               ELSE y * z >= x /\ x > y * z + y
      [] op = "%" -> /\ (y > 0 => 0 <= z /\ z < y)
                     /\ (y < 0 => y < z /\ z <= 0)
                     /\ \E q \in -(Abs(x) + Abs(z))..(Abs(x) + Abs(z)) : x - z = q * y
      [] op = "**" -> z = (IF y = 0 THEN 1 ELSE IF y = 1 THEN x ELSE x * x)
      [] op = "<" -> z = (x < y)
      [] op = ">" -> z = (y < x)

\* C12: a binary operator on two ScalarColumns of one backend and equal
\* length returns a ScalarColumn of that backend whose element i is
\* a[i] op b[i]; // rounds toward negative infinity.
C12_ColumnOperators ==
    result.op = "column_op" =>
        /\ result.out.backend = result.col_a.backend
        /\ Len(result.out.data) = Len(result.col_a.data)
        /\ \A i \in 1..Len(result.col_a.data) :
            Holds(result.operator, result.col_a.data[i], result.col_b.data[i],
                  result.out.data[i])

\* a floor division on arrow of two elements, one with a negative dividend
\* that the divisor does not divide
C12_Witness ==
    /\ result.op = "column_op"
    /\ result.operator = "//"
    /\ result.col_a.backend = "arrow"
    /\ Len(result.col_a.data) = 2
    /\ \E i \in 1..2 :
        /\ result.col_a.data[i] < 0
        /\ result.col_b.data[i] > 0
        /\ result.out.data[i] * result.col_b.data[i] # result.col_a.data[i]

\* C13: with a scalar s, col op s has element col[i] op s and the reflected
\* s op col has element s op col[i]; for + and * the two forms are equal,
\* and s - col is the element-wise negation of col - s.
C13_ScalarOperators ==
    result.op = "scalar_op" =>
        /\ result.left.backend = result.col_a.backend
        /\ result.right.backend = result.col_a.backend
        /\ Len(result.left.data) = Len(result.col_a.data)
        /\ Len(result.right.data) = Len(result.col_a.data)
        /\ \A i \in 1..Len(result.col_a.data) :
            /\ Holds(result.operator, result.col_a.data[i], result.scalar, result.left.data[i])
            /\ Holds(result.operator, result.scalar, result.col_a.data[i], result.right.data[i])
            /\ (result.operator = "-" => result.right.data[i] = -result.left.data[i])
        /\ (result.operator \in {"+", "*"} => result.left = result.right)

\* a subtraction of a scalar and a column of two elements, one of them
\* different from the scalar
C13_Witness ==
    /\ result.op = "scalar_op"
    /\ result.operator = "-"
    /\ Len(result.col_a.data) = 2
    /\ \E i \in 1..2 : result.col_a.data[i] # result.scalar
    /\ result.left # result.right
====
